---- MODULE Spec2Model ----
(***************************************************************************)
(* Shared, mutex-protected access to the Secret Service (src/src/service.rs).*)
(*                                                                         *)
(* The state is the daemon's store (collections, the "default" alias and   *)
(* items), the Service's mutex, and for every calling thread the position  *)
(* inside the Service method it is running, its arguments, its local       *)
(* variables and its result.  Every request to the daemon is one step;     *)
(* each request may fail (the daemon is reached over D-Bus).               *)
(*                                                                         *)
(* Locking in the daemon is per collection: an item is locked exactly when *)
(* its collection is (the behaviour of gnome-keyring, the daemon the       *)
(* crate documents in src/src/lib.rs).  Requests that write to a locked    *)
(* item fail; creating an item in a locked collection makes the daemon     *)
(* prompt, which unlocks the collection or fails the request.              *)
(*                                                                         *)
(* Spec runs the methods from one calling thread over a range of stores;   *)
(* SpecThreads runs them from two threads that contend for the mutex;      *)
(* SpecFair runs two threads with every daemon request returning and a    *)
(* fair scheduler.                                                         *)
(***************************************************************************)
EXTENDS Integers, Sequences, FiniteSets, TLC

\* Bound of the model: the number of calls made in a behaviour.
MaxOps == 2

Threads == {1, 2}

\* Collection names passed by callers.
Names == {"default", "Default", "work"}

Secrets == {"p1", "p2"}
ItemLabels == {"L1", "L2"}
\* The label create_item is given: keyring:{user}@{service} (src/src/lib.rs).
CreateLabels == {"L1"}

EmptyAttrs == [k \in {} |-> ""]

SU(u) == ("service" :> "svc") @@ ("username" :> u)

\* Attribute maps used to create items, to search, and to update.
CreateAttrs == {SU("u1"), SU("u1") @@ ("target" :> "t1")}
Queries == CreateAttrs \cup {SU("u1") @@ ("target" :> "t2"), SU("u2")}
UpdateAttrs == {"app" :> "a2", ("username" :> "u2") @@ ("target" :> "t1")}

VARIABLES
    daemon,      \* [colls, dflt, items]: the store held by the daemon
    mutex,       \* 0 when Service.ss is free, else the thread holding it
    poisoned,    \* whether a thread panicked while holding Service.ss
    pc,          \* per thread: position inside the running method
    call,        \* per thread: the method and its arguments
    local,       \* per thread: local variables of the running method
    res,         \* per thread: the value the method is about to return
    pre,         \* history: the daemon's store when the lock was acquired
    prevCreate,  \* history: what the last returned call wrote, if a
                 \* successful create_item: the item and its collection
    prevUpdate,  \* history: what the last returned call wrote, if a
                 \* successful update_attributes: the item and the pairs
    nops         \* history: number of calls started

vars == <<daemon, mutex, poisoned, pc, call, local, res, pre, prevCreate,
          prevUpdate, nops>>

----------------------------------------------------------------------------
(* The daemon's store.  Collections and items are kept in creation order;  *)
(* a deleted one leaves a tombstone so that paths are never reused.        *)

GoneColl == [exists |-> FALSE, label |-> "", locked |-> FALSE]
GoneItem == [exists |-> FALSE, coll |-> 0, attrs |-> EmptyAttrs,
             label |-> "", secret |-> ""]

Coll(l, k) == [exists |-> TRUE, label |-> l, locked |-> k]
Item(c, a, l, s) == [exists |-> TRUE, coll |-> c, attrs |-> a,
                     label |-> l, secret |-> s]

LiveColls(d) == {c \in 1..Len(d.colls) : d.colls[c].exists}
LiveItems(d) == {i \in 1..Len(d.items) : d.items[i].exists}

ItemLocked(d, i) == d.colls[d.items[i].coll].locked

\* Ascending sequence of the members of a set of numbers.
RECURSIVE Ascending(_)
Ascending(S) ==
    IF S = {} THEN <<>>
    ELSE LET m == CHOOSE x \in S : \A y \in S : x <= y
         IN <<m>> \o Ascending(S \ {m})

\* The daemon's attribute match: every given pair is carried by the item.
Matches(attrs, query) ==
    \A k \in DOMAIN query : k \in DOMAIN attrs /\ attrs[k] = query[k]

\* SecretService::search_items: all matching items of all collections,
\* split by lock state.
search_items(d, query) ==
    LET hit == {i \in LiveItems(d) : Matches(d.items[i].attrs, query)}
    IN [unlocked |-> Ascending({i \in hit : ~ItemLocked(d, i)}),
        locked |-> Ascending({i \in hit : ItemLocked(d, i)})]

RECURSIVE SeqToSet(_)
SeqToSet(s) == IF s = <<>> THEN {} ELSE {Head(s)} \cup SeqToSet(Tail(s))

\* SecretService::unlock_all: unlocks the collections of the given items.
unlock_all(d, paths) ==
    LET cs == {d.items[i].coll : i \in SeqToSet(paths) \cap LiveItems(d)}
    IN [d EXCEPT !.colls = [c \in 1..Len(d.colls) |->
            IF c \in cs THEN [d.colls[c] EXCEPT !.locked = FALSE]
            ELSE d.colls[c]]]

\* Collection::unlock.
unlock_collection(d, c) == [d EXCEPT !.colls[c].locked = FALSE]

\* Collection::delete: the collection and its items are gone; an alias
\* that named it names nothing.
delete_collection_req(d, c) ==
    [colls |-> [d.colls EXCEPT ![c] = GoneColl],
     dflt |-> IF d.dflt = c THEN 0 ELSE d.dflt,
     items |-> [i \in 1..Len(d.items) |->
                  IF d.items[i].coll = c THEN GoneItem ELSE d.items[i]]]

\* SecretService::create_collection(label, ""): a new, unlocked collection.
new_collection(d, label) ==
    [d EXCEPT !.colls = Append(d.colls, Coll(label, FALSE))]

\* Collection::create_item: with `replace`, an item of the collection with
\* the same attributes is overwritten, otherwise a new item is added.  A
\* locked collection is unlocked by the daemon's prompt.  Yields the new
\* store and the item's path.
collection_create_item(d, c, label, attrs, secret, replace) ==
    LET same == {i \in LiveItems(d) :
                    d.items[i].coll = c /\ d.items[i].attrs = attrs}
        it == Item(c, attrs, label, secret)
        unl == unlock_collection(d, c)
    IN IF replace /\ same # {}
       THEN LET i == CHOOSE x \in same : \A y \in same : x <= y
            IN [store |-> [unl EXCEPT !.items[i] = it], path |-> i]
       ELSE [store |-> [unl EXCEPT !.items = Append(d.items, it)],
             path |-> Len(d.items) + 1]

\* The request made with replace = false.
create_item_no_replace(d, c, label, attrs, secret) ==
    collection_create_item(d, c, label, attrs, secret, FALSE)

\* The request create_item makes: replace = true.
create_item_req(d, c, label, attrs, secret) ==
    collection_create_item(d, c, label, attrs, secret, TRUE)

----------------------------------------------------------------------------
(* Errors.  A daemon request fails with "failure" (the request did not go  *)
(* through), "absent" (no such object) or "locked".                        *)

\* crate::errors::platform_failure.
platform_failure(e) == "PlatformFailure"

\* Every failed request reported as a platform failure.
decode_as_platform_failure(e) == platform_failure(e)

\* crate::errors::decode_error: an absent collection or item is a
\* not-found error, anything else a platform failure.
decode_error(e) == IF e = "absent" THEN "NoEntry" ELSE platform_failure(e)

\* The name compared as it was given.
keep_case(s) == s

\* str::to_ascii_lowercase on the names of the model.
to_ascii_lowercase(s) ==
    CASE s = "Default" -> "default"
      [] s = "DEFAULT" -> "default"
      [] OTHER -> s

\* Outcome of a resolution: err = "" on success.
Resolved(e, c, d, f) == [err |-> e, coll |-> c, store |-> d, dfail |-> f]

\* The collection get_collection picks for a name, before unlocking it.
\* The label of any collection may fail to be read (F); find() skips those
\* and stops at the first collection whose label is read as `name`.
find_by_label(d, name) ==
    {Resolved(decode_error("failure"), 0, d, TRUE)} \cup
    {LET ok == {c \in LiveColls(d) \ F : d.colls[c].label = name}
     IN IF ok = {} THEN Resolved("NoEntry", 0, d, F # {})
        ELSE LET c == CHOOSE x \in ok : \A y \in ok : x <= y
             IN Resolved("", c, d, \E f \in F : f < c)
     : F \in SUBSET LiveColls(d)}

get_default_collection(d) ==
    {Resolved(decode_error("failure"), 0, d, TRUE),
     IF d.dflt = 0 THEN Resolved(decode_error("absent"), 0, d, FALSE)
     ELSE Resolved("", d.dflt, d, FALSE)}

\* Every name, "default" too, looked up by label.
find_collection_by_label_only(d, name) == find_by_label(d, name)

FindCollection(d, name) ==
    IF name = "default" THEN get_default_collection(d)
    ELSE find_by_label(d, name)

\* util::get_collection: the collection found, unlocked if it was locked.
get_collection(d, name) ==
    UNION {IF f.err # "" THEN {f}
           ELSE {Resolved(decode_error("failure"), 0, d, TRUE)} \cup
                {Resolved("", f.coll, unlock_collection(d, f.coll), f.dfail)}
           : f \in FindCollection(d, name)}

\* The default collection returned for every name.
create_collection_always_default(d, name) == get_default_collection(d)

\* util::create_collection: the default collection for a name that is
\* "default" in any case, otherwise the daemon is asked to create one; a
\* daemon that already has a collection with that label may return it.
create_collection(d, name) ==
    IF to_ascii_lowercase(name) = "default"
    THEN get_default_collection(d)
    ELSE {Resolved(decode_error("failure"), 0, d, TRUE),
          Resolved("", Len(d.colls) + 1, new_collection(d, name), FALSE)} \cup
         {Resolved("", c, d, FALSE) :
            c \in {x \in LiveColls(d) : d.colls[x].label = name}}

----------------------------------------------------------------------------
(* Calls, locals and results.                                              *)

NoCall == [op |-> "", name |-> "", path |-> 0, attrs |-> EmptyAttrs,
           label |-> "", secret |-> ""]
NoLocal == [coll |-> 0, item |-> 0, unlocked |-> <<>>, locked |-> <<>>,
            existing |-> EmptyAttrs, dfail |-> FALSE]
NoRes == [kind |-> "", paths |-> <<>>, text |-> "", attrs |-> EmptyAttrs]
NoStore == [colls |-> <<>>, dflt |-> 0, items |-> <<>>]
NoCreate == [coll |-> 0, item |-> 0]
NoUpdate == [path |-> 0, attrs |-> EmptyAttrs, waiting |-> {}]

Ok == [NoRes EXCEPT !.kind = "Ok"]
Err(e) == [NoRes EXCEPT !.kind = e]

\* Paths a caller can hold: those of items that exist or have existed.
Paths(d) == 1..Len(d.items)

Calls(d) ==
    {[NoCall EXCEPT !.op = "find_matching_items", !.attrs = q] : q \in Queries}
    \cup {[NoCall EXCEPT !.op = "create_item", !.name = n, !.label = l,
                         !.attrs = a, !.secret = s] :
            n \in Names, l \in CreateLabels, a \in CreateAttrs, s \in Secrets}
    \cup {[NoCall EXCEPT !.op = "delete_collection", !.name = n] : n \in Names}
    \cup {[NoCall EXCEPT !.op = o, !.path = p] :
            o \in {"ensure_unlocked", "get_secret", "get_attributes",
                   "delete", "get_label"}, p \in Paths(d)}
    \cup {[NoCall EXCEPT !.op = "set_secret", !.path = p, !.secret = s] :
            p \in Paths(d), s \in Secrets}
    \cup {[NoCall EXCEPT !.op = "set_label", !.path = p, !.label = l] :
            p \in Paths(d), l \in ItemLabels}
    \cup {[NoCall EXCEPT !.op = "update_attributes", !.path = p, !.attrs = a] :
            p \in Paths(d), a \in UpdateAttrs}

FirstStep(op) ==
    CASE op = "find_matching_items" -> "search_items"
      [] op = "create_item" -> "get_collection"
      [] op = "delete_collection" -> "check_default"
      [] op = "update_attributes" -> "get_attributes"
      [] OTHER -> "request"

----------------------------------------------------------------------------
(* Steps of the Service methods.                                           *)

\* A lock whose poison flag is ignored.
lock_never_err(t) == FALSE

\* LockResult: Mutex::lock returns Err when a holder of the mutex panicked.
lock_is_err(t) == poisoned

\* A guard that is forgotten instead of dropped.
forget_guard(t) == mutex

\* Drop of the MutexGuard at the end of the method: the mutex is free.
drop_guard(t) == IF mutex = t THEN 0 ELSE mutex

\* The label written with set_secret.
set_label_as_secret(d, p, label) == [d EXCEPT !.items[p].secret = label]

\* Item::set_label.
set_label_req(d, p, label) == [d EXCEPT !.items[p].label = label]

\* A lock that lets every caller in.
MutexNeverHeld(t) == TRUE

\* Mutex::lock: the caller proceeds only when no thread holds the mutex.
MutexFree(t) == mutex = 0

\* The merge loops of update_attributes: every pair of `existing` is
\* inserted, then every pair of `attributes`; insert overwrites.
insert(m, k, v) == [x \in DOMAIN m \cup {k} |-> IF x = k THEN v ELSE m[x]]

RECURSIVE insert_all(_, _)
insert_all(m, from) ==
    IF DOMAIN from = {} THEN m
    ELSE LET k == CHOOSE x \in DOMAIN from : TRUE
         IN insert_all(insert(m, k, from[k]),
                       [x \in DOMAIN from \ {k} |-> from[x]])

\* The new attributes written without the existing ones.
updated_without_existing(existing, attributes) ==
    insert_all(EmptyAttrs, attributes)

updated_attributes(existing, attributes) ==
    insert_all(insert_all(EmptyAttrs, existing), attributes)

\* The test made on the unlocked items instead of the locked ones.
unlock_if_unlocked_found(search) == search.unlocked # <<>>

\* find_matching_items unlocks when the search found locked items.
must_unlock(search) == search.locked # <<>>

\* The locked items chained first.
results_locked_first(search) == search.locked \o search.unlocked

\* Only the items that had to be unlocked.
results_locked_only(search) == search.locked

\* The result sequence of find_matching_items: unlocked, then locked.
results(search) == search.unlocked \o search.locked

\* The test made against another spelling.
is_default_capitalised(name) == name = "Default"

\* The test delete_collection makes before resolving the name.
is_default(name) == name = "default"

\* Thread t moves to position p of its method.
Goto(t, p, d, l) ==
    /\ pc' = [pc EXCEPT ![t] = p]
    /\ daemon' = d
    /\ local' = [local EXCEPT ![t] = l]
    /\ UNCHANGED <<mutex, poisoned, call, res, pre, prevCreate, prevUpdate,
                   nops>>

\* The last step of a method: its result is set, the guard not yet dropped.
Finish(t, r, d, l) ==
    /\ pc' = [pc EXCEPT ![t] = "done"]
    /\ res' = [res EXCEPT ![t] = r]
    /\ daemon' = d
    /\ local' = [local EXCEPT ![t] = l]
    /\ UNCHANGED <<mutex, poisoned, call, pre, prevCreate, prevUpdate, nops>>

\* A daemon request that did not go through ends the method with an error.
Fail(t, e) == Finish(t, Err(e), daemon, [local[t] EXCEPT !.dfail = TRUE])

\* Thread t calls a method and waits for Service.ss.
Call(t) ==
    /\ pc[t] = "idle"
    /\ nops < MaxOps
    /\ pc' = [pc EXCEPT ![t] = "lock"]
    /\ nops' = nops + 1
    /\ UNCHANGED <<daemon, mutex, poisoned, call, local, res, pre, prevCreate,
                   prevUpdate>>

\* self.ss.lock().expect(..): the mutex is acquired and the method starts
\* with arguments c, which are drawn here.
Lock(t) ==
    /\ pc[t] = "lock"
    /\ MutexFree(t)
    /\ ~lock_is_err(t)
    /\ \E c \in Calls(daemon) :
          /\ call' = [call EXCEPT ![t] = c]
          /\ pc' = [pc EXCEPT ![t] = FirstStep(c.op)]
    /\ mutex' = t
    /\ pre' = daemon
    /\ UNCHANGED <<daemon, poisoned, local, res, prevCreate, prevUpdate, nops>>

\* self.ss.lock().expect(..) on a poisoned mutex: lock() acquires the mutex
\* and returns the guard inside an Err, on which expect panics with
\* "Mutex failure in credential store"; no statement of the method runs.
LockPoisoned(t) ==
    /\ pc[t] = "lock"
    /\ MutexFree(t)
    /\ lock_is_err(t)
    /\ \E c \in Calls(daemon) : call' = [call EXCEPT ![t] = c]
    /\ pc' = [pc EXCEPT ![t] = "panicked"]
    /\ res' = [res EXCEPT ![t] = Err("MutexFailure")]
    /\ mutex' = t
    /\ pre' = daemon
    /\ UNCHANGED <<daemon, poisoned, local, prevCreate, prevUpdate, nops>>

\* A call into the Secret Service library panics while the guard is held.
Panic(t) ==
    /\ pc[t] \notin {"idle", "lock", "done", "panicked"}
    /\ pc' = [pc EXCEPT ![t] = "panicked"]
    /\ res' = [res EXCEPT ![t] = Err("LibraryPanic")]
    /\ call' = [call EXCEPT ![t] = NoCall]
    /\ local' = [local EXCEPT ![t] = NoLocal]
    /\ pre' = NoStore
    /\ UNCHANGED <<daemon, mutex, poisoned, prevCreate, prevUpdate, nops>>

\* find_matching_items: ss.search_items; without locked items the method
\* returns at once.
Search(t) ==
    /\ pc[t] = "search_items"
    /\ \/ Fail(t, decode_error("failure"))
       \/ LET search == search_items(daemon, call[t].attrs)
              l == [local[t] EXCEPT !.unlocked = search.unlocked,
                                    !.locked = search.locked]
          IN IF must_unlock(search)
             THEN Goto(t, "unlock_all", daemon, l)
             ELSE Finish(t, [Ok EXCEPT !.paths = results(search)], daemon, l)

\* find_matching_items: ss.unlock_all on the locked items.
UnlockAll(t) ==
    /\ pc[t] = "unlock_all"
    /\ \/ Fail(t, decode_error("failure"))
       \/ Finish(t, [Ok EXCEPT !.paths = results(local[t])],
                 unlock_all(daemon, local[t].locked), local[t])

\* create_item: util::get_collection.
CreateGetCollection(t) ==
    /\ pc[t] = "get_collection"
    /\ \E r \in get_collection(daemon, call[t].name) :
          LET l == [local[t] EXCEPT !.coll = r.coll, !.dfail = r.dfail]
          IN CASE r.err = "" -> Goto(t, "create_item", r.store, l)
               [] r.err = "NoEntry" -> Goto(t, "create_collection", r.store, l)
               [] OTHER -> Finish(t, Err(r.err), r.store, l)

\* create_item: util::create_collection after Err(NoEntry).
CreateCollection(t) ==
    /\ pc[t] = "create_collection"
    /\ \E r \in create_collection(daemon, call[t].name) :
          LET l == [local[t] EXCEPT !.coll = r.coll, !.dfail = @ \/ r.dfail]
          IN IF r.err = ""
             THEN Goto(t, "create_item", r.store, l)
             ELSE Finish(t, Err(r.err), r.store, l)

\* create_item: collection.create_item with replace = true.
CreateItem(t) ==
    /\ pc[t] = "create_item"
    /\ \/ Fail(t, platform_failure("failure"))
       \/ LET c == call[t]
              r == create_item_req(daemon, local[t].coll, c.label, c.attrs,
                                   c.secret)
          IN Finish(t, Ok, r.store, [local[t] EXCEPT !.item = r.path])

\* delete_collection: the test for "default", then util::get_collection.
DeleteGetCollection(t) ==
    /\ pc[t] = "check_default"
    /\ IF is_default(call[t].name)
       THEN Finish(t, Err("NotSupportedByStore"), daemon, local[t])
       ELSE \E r \in get_collection(daemon, call[t].name) :
               LET l == [local[t] EXCEPT !.coll = r.coll, !.dfail = r.dfail]
               IN IF r.err = ""
                  THEN Goto(t, "delete", r.store, l)
                  ELSE Finish(t, Err(r.err), r.store, l)

\* delete_collection: c.delete().
DeleteCollection(t) ==
    /\ pc[t] = "delete"
    /\ \/ Fail(t, decode_error("failure"))
       \/ Finish(t, Ok, delete_collection_req(daemon, local[t].coll), local[t])

\* The single daemon request of an item-level method on path p: `absent`
\* when no such item exists, `locked` when the method needs it unlocked.
Request(t, op) == pc[t] = "request" /\ call[t].op = op

Absent(t) ==
    /\ call[t].path \notin LiveItems(daemon)
    /\ Finish(t, Err(decode_error("absent")), daemon, local[t])

Locked(t) ==
    /\ call[t].path \in LiveItems(daemon)
    /\ ItemLocked(daemon, call[t].path)
    /\ Finish(t, Err(decode_error("locked")), daemon, local[t])

Usable(t) ==
    /\ call[t].path \in LiveItems(daemon)
    /\ ~ItemLocked(daemon, call[t].path)

\* ensure_unlocked: item.ensure_unlocked(); a locked item is reported as
\* locked or is unlocked by the daemon.
EnsureUnlocked(t) ==
    /\ Request(t, "ensure_unlocked")
    /\ \/ Fail(t, decode_error("failure"))
       \/ Absent(t)
       \/ Locked(t)
       \/ /\ call[t].path \in LiveItems(daemon)
          /\ Finish(t, Ok, unlock_all(daemon, <<call[t].path>>), local[t])

\* set_secret: item.set_secret(secret, "text/plain").
SetSecret(t) ==
    /\ Request(t, "set_secret")
    /\ \/ Fail(t, decode_error("failure"))
       \/ Absent(t)
       \/ Locked(t)
       \/ /\ Usable(t)
          /\ Finish(t, Ok,
                [daemon EXCEPT !.items[call[t].path].secret = call[t].secret],
                local[t])

\* get_secret: item.get_secret().
GetSecret(t) ==
    /\ Request(t, "get_secret")
    /\ \/ Fail(t, decode_error("failure"))
       \/ Absent(t)
       \/ Locked(t)
       \/ /\ Usable(t)
          /\ Finish(t, [Ok EXCEPT !.text = daemon.items[call[t].path].secret],
                    daemon, local[t])

\* get_attributes: item.get_attributes(); attributes are readable on a
\* locked item.
GetAttributes(t) ==
    /\ Request(t, "get_attributes")
    /\ \/ Fail(t, decode_error("failure"))
       \/ Absent(t)
       \/ /\ call[t].path \in LiveItems(daemon)
          /\ Finish(t, [Ok EXCEPT !.attrs = daemon.items[call[t].path].attrs],
                    daemon, local[t])

\* update_attributes: item.get_attributes() into `existing`.
UpdateGetAttributes(t) ==
    /\ pc[t] = "get_attributes"
    /\ \/ Fail(t, decode_error("failure"))
       \/ Absent(t)
       \/ /\ call[t].path \in LiveItems(daemon)
          /\ Goto(t, "set_attributes", daemon,
                  [local[t] EXCEPT !.existing = daemon.items[call[t].path].attrs])

\* update_attributes: item.set_attributes(updated); the daemon replaces the
\* item's whole attribute map.
UpdateSetAttributes(t) ==
    /\ pc[t] = "set_attributes"
    /\ \/ Fail(t, decode_error("failure"))
       \/ Absent(t)
       \/ Locked(t)
       \/ /\ Usable(t)
          /\ Finish(t, Ok,
                [daemon EXCEPT !.items[call[t].path].attrs =
                    updated_attributes(local[t].existing, call[t].attrs)],
                local[t])

\* delete: item.delete().
Delete(t) ==
    /\ Request(t, "delete")
    /\ \/ Fail(t, decode_error("failure"))
       \/ Absent(t)
       \/ Locked(t)
       \/ /\ Usable(t)
          /\ Finish(t, Ok, [daemon EXCEPT !.items[call[t].path] = GoneItem],
                    local[t])

\* get_label: item.get_label().
GetLabel(t) ==
    /\ Request(t, "get_label")
    /\ \/ Fail(t, decode_error("failure"))
       \/ Absent(t)
       \/ /\ call[t].path \in LiveItems(daemon)
          /\ Finish(t, [Ok EXCEPT !.text = daemon.items[call[t].path].label],
                    daemon, local[t])

\* set_label: item.set_label(label).
SetLabel(t) ==
    /\ Request(t, "set_label")
    /\ \/ Fail(t, decode_error("failure"))
       \/ Absent(t)
       \/ Locked(t)
       \/ /\ Usable(t)
          /\ Finish(t, Ok, set_label_req(daemon, call[t].path, call[t].label),
                    local[t])

\* The method returns: the MutexGuard is dropped and the locals are gone.
Return(t) ==
    /\ pc[t] = "done"
    /\ pc' = [pc EXCEPT ![t] = "idle"]
    /\ mutex' = drop_guard(t)
    /\ prevCreate' =
          IF call[t].op = "create_item" /\ res[t].kind = "Ok"
          THEN [coll |-> local[t].coll, item |-> local[t].item]
          ELSE NoCreate
    /\ prevUpdate' =
          IF call[t].op = "update_attributes" /\ res[t].kind = "Ok"
          THEN [path |-> call[t].path, attrs |-> call[t].attrs,
                waiting |-> {s \in Threads : pc[s] = "lock"}]
          ELSE NoUpdate
    /\ call' = [call EXCEPT ![t] = NoCall]
    /\ local' = [local EXCEPT ![t] = NoLocal]
    /\ res' = [res EXCEPT ![t] = NoRes]
    /\ pre' = NoStore
    /\ UNCHANGED <<daemon, poisoned, nops>>

\* The panic unwinds out of the method: the MutexGuard is dropped while the
\* thread is panicking, which frees the mutex and poisons it.
Unwind(t) ==
    /\ pc[t] = "panicked"
    /\ pc' = [pc EXCEPT ![t] = "idle"]
    /\ mutex' = drop_guard(t)
    /\ poisoned' = (poisoned \/ mutex = t)
    /\ call' = [call EXCEPT ![t] = NoCall]
    /\ local' = [local EXCEPT ![t] = NoLocal]
    /\ res' = [res EXCEPT ![t] = NoRes]
    /\ pre' = NoStore
    /\ prevCreate' = NoCreate
    /\ prevUpdate' = NoUpdate
    /\ UNCHANGED <<daemon, nops>>

----------------------------------------------------------------------------
(* Initial stores: one or two collections, one of them the default, in    *)
(* any lock state, with one item in the first collection and two in the    *)
(* last (one carrying an attribute set by another application, one of      *)
(* another user); and the store of a fresh daemon, with no item.           *)

InitLayouts ==
    {[labels |-> <<"login">>, dflt |-> 1],
     [labels |-> <<"work", "default">>, dflt |-> 1],
     [labels |-> <<"default", "login">>, dflt |-> 2],
     [labels |-> <<"login", "Default">>, dflt |-> 1],
     [labels |-> <<"login", "work">>, dflt |-> 1]}

InitItems(n) ==
    <<Item(1, SU("u1"), "L1", "p1"),
      Item(n, SU("u1") @@ ("app" :> "a1"), "L1", "p1"),
      Item(n, SU("u2"), "L1", "p1")>>

FreshStore == [colls |-> <<Coll("login", FALSE)>>, dflt |-> 1, items |-> <<>>]

\* A store whose only item another application has deleted; the caller
\* still holds its path.
EmptiedStore == [FreshStore EXCEPT !.items = <<GoneItem>>]

InitStores ==
    {FreshStore, EmptiedStore} \cup
    UNION {{[colls |-> [c \in 1..Len(y.labels) |-> Coll(y.labels[c], k[c])],
             dflt |-> y.dflt,
             items |-> InitItems(Len(y.labels))]
            : k \in [1..Len(y.labels) -> BOOLEAN]}
           : y \in InitLayouts}

\* Stores the runs with two calling threads start from.
ThreadStores == {d \in InitStores : Len(d.colls) = 1}

Idle ==
    /\ mutex = 0
    /\ poisoned = FALSE
    /\ pc = [t \in Threads |-> "idle"]
    /\ call = [t \in Threads |-> NoCall]
    /\ local = [t \in Threads |-> NoLocal]
    /\ res = [t \in Threads |-> NoRes]
    /\ pre = NoStore
    /\ prevCreate = NoCreate
    /\ prevUpdate = NoUpdate
    /\ nops = 0

Init == daemon \in InitStores /\ Idle

InitThreads == daemon \in ThreadStores /\ Idle

\* The store the fair runs start from: a locked default collection with one
\* item.
FairStore ==
    [colls |-> <<Coll("login", TRUE)>>, dflt |-> 1,
     items |-> <<Item(1, SU("u1"), "L1", "p1")>>]

InitFair == daemon = FairStore /\ Idle

\* A step of thread t inside a method, up to its return.
Run(t) ==
    \/ Search(t)
    \/ UnlockAll(t)
    \/ CreateGetCollection(t)
    \/ CreateCollection(t)
    \/ CreateItem(t)
    \/ DeleteGetCollection(t)
    \/ DeleteCollection(t)
    \/ EnsureUnlocked(t)
    \/ SetSecret(t)
    \/ GetSecret(t)
    \/ GetAttributes(t)
    \/ UpdateGetAttributes(t)
    \/ UpdateSetAttributes(t)
    \/ Delete(t)
    \/ GetLabel(t)
    \/ SetLabel(t)
    \/ Return(t)

\* A step of a call in which every request to the daemon returns.
Returns(t) == Call(t) \/ Lock(t) \/ Run(t)

\* A step of a call made by thread t.
Method(t) == Returns(t) \/ LockPoisoned(t) \/ Panic(t) \/ Unwind(t)

\* One calling thread.
Next == Method(1)

Spec == Init /\ [][Next]_vars

\* Every thread calls.
NextThreads == \E t \in Threads : Method(t)

SpecThreads == InitThreads /\ [][NextThreads]_vars

\* Every request to the daemon returns, a thread that can take a step of its
\* method eventually does, and a thread that waits for a mutex that is free
\* again and again eventually gets it.
NextFair == \E t \in Threads : Returns(t)

Fairness == \A t \in Threads : WF_vars(Run(t)) /\ SF_vars(Lock(t))

SpecFair == InitFair /\ [][NextFair]_vars /\ Fairness

----
(* Properties.                                                             *)

InMethod(t) == pc[t] \notin {"idle", "lock"}
Returning(t, op) == pc[t] = "done" /\ call[t].op = op
ReturningOk(t, op) == Returning(t, op) /\ res[t].kind = "Ok"

WithAttrs(d, a) == {i \in LiveItems(d) : d.items[i].attrs = a}
WithAttrsIn(d, a, c) == {i \in WithAttrs(d, a) : d.items[i].coll = c}
Labelled(d, n) == {c \in LiveColls(d) : d.colls[c].label = n}
Carrying(d, q) ==
    {i \in LiveItems(d) :
        \A k \in DOMAIN q : k \in DOMAIN d.items[i].attrs
                            /\ d.items[i].attrs[k] = q[k]}

\* C1: at most one thread is between acquiring the connection lock and
\* returning, and that thread is the one holding the mutex.
C1_MutualExclusion ==
    \A s, t \in Threads :
        InMethod(s) /\ InMethod(t) => s = t /\ mutex = t

C1_Witness ==
    \E t \in Threads :
        /\ pc[t] = "set_attributes"
        /\ nops = 2
        /\ \A s \in Threads \ {t} : pc[s] = "idle"

\* C2: the daemon's designated default collection still exists in every
\* reachable state.
C2_DefaultCollectionExists == daemon.dflt \in LiveColls(daemon)

\* C3: delete_collection("default") returns the not-supported error and
\* leaves collections, lock states and items as they were.
C3_DeleteDefaultRejected ==
    \A t \in Threads :
        Returning(t, "delete_collection") /\ call[t].name = "default"
        => res[t].kind = "NotSupportedByStore" /\ daemon = pre

C3_Witness ==
    \E t \in Threads :
        /\ Returning(t, "delete_collection")
        /\ call[t].name = "default"
        /\ res[t].kind = "NotSupportedByStore"
        /\ daemon.colls[daemon.dflt].locked
        /\ Labelled(daemon, "default") # {}
        /\ daemon.colls[daemon.dflt].label # "default"

\* C4: after update_attributes(item, new) the item's attribute map is the
\* old map overlaid with new: new[k] for the keys of new, old[k] for the
\* other keys of old, and no other key.
C4_UpdateOverlays ==
    \A t \in Threads :
        ReturningOk(t, "update_attributes") =>
            LET old == pre.items[call[t].path].attrs
                new == call[t].attrs
                now == daemon.items[call[t].path].attrs
            IN /\ DOMAIN now = DOMAIN old \cup DOMAIN new
               /\ \A k \in DOMAIN new : now[k] = new[k]
               /\ \A k \in DOMAIN old \ DOMAIN new : now[k] = old[k]

C4_Witness ==
    \E t \in Threads :
        /\ ReturningOk(t, "update_attributes")
        /\ LET old == pre.items[call[t].path].attrs
               new == call[t].attrs
           IN /\ "app" \in DOMAIN old \ DOMAIN new
              /\ \E k \in DOMAIN new \cap DOMAIN old : old[k] # new[k]
              /\ DOMAIN new \ DOMAIN old # {}

\* Two successive successful create_item calls with the same attribute map.
SecondCreate(t) ==
    /\ ReturningOk(t, "create_item")
    /\ prevCreate # NoCreate
    /\ pre.items[prevCreate.item].attrs = call[t].attrs

\* C5 as stated: after two successful create_item calls with the same
\* attribute map the daemon holds exactly one item with those attributes.
C5_OneItemInDaemon ==
    \A t \in Threads :
        SecondCreate(t) => Cardinality(WithAttrs(daemon, call[t].attrs)) = 1

\* C5 amended: when both calls place the item in the same collection, the
\* second adds no item: it overwrites the item the first wrote, whose
\* secret is then the second's, and that collection holds exactly one item
\* with those attributes where it held at most one before.
C5_SecondCreateOverwrites ==
    \A t \in Threads :
        SecondCreate(t) /\ local[t].coll = prevCreate.coll =>
            LET a == call[t].attrs
                c == local[t].coll
            IN /\ local[t].item = prevCreate.item
               /\ daemon.items[local[t].item].secret = call[t].secret
               /\ LiveItems(daemon) = LiveItems(pre)
               /\ WithAttrsIn(daemon, a, c) = WithAttrsIn(pre, a, c)
               /\ Cardinality(WithAttrsIn(pre, a, c)) <= 1
                    => WithAttrsIn(daemon, a, c) = {prevCreate.item}

C5_Witness ==
    \E t \in Threads :
        /\ SecondCreate(t)
        /\ local[t].coll = prevCreate.coll
        /\ call[t].secret # pre.items[prevCreate.item].secret
        /\ Cardinality(WithAttrs(daemon, call[t].attrs)) = 1

\* C6: every item find_matching_items returns exists and is unlocked when
\* the method returns Ok, so that its secret can be read next.
C6_ReturnedItemsUnlocked ==
    \A t \in Threads :
        ReturningOk(t, "find_matching_items") =>
            \A n \in 1..Len(res[t].paths) :
                /\ res[t].paths[n] \in LiveItems(daemon)
                /\ ~ItemLocked(daemon, res[t].paths[n])

C6_Witness ==
    \E t \in Threads :
        /\ ReturningOk(t, "find_matching_items")
        /\ \E n \in 1..Len(res[t].paths) : ItemLocked(pre, res[t].paths[n])

\* C7: find_matching_items(attrs) returns exactly the items of all
\* collections that carry every pair of attrs, each once, those that were
\* unlocked before those that were locked; when nothing matches it returns
\* Ok with an empty sequence unless the search request itself failed.
C7_FindReturnsMatches ==
    \A t \in Threads :
        Returning(t, "find_matching_items") =>
            LET want == Carrying(pre, call[t].attrs)
                got == res[t].paths
            IN /\ res[t].kind = "Ok" =>
                    /\ {got[n] : n \in 1..Len(got)} = want
                    /\ Len(got) = Cardinality(want)
                    /\ \A m, n \in 1..Len(got) :
                          ItemLocked(pre, got[m]) /\ ~ItemLocked(pre, got[n])
                          => n < m
               /\ want = {} /\ ~local[t].dfail =>
                    res[t].kind = "Ok" /\ got = <<>>

C7_Witness ==
    \E t \in Threads :
        /\ ReturningOk(t, "find_matching_items")
        /\ \E m, n \in 1..Len(res[t].paths) :
              /\ ~ItemLocked(pre, res[t].paths[m])
              /\ ItemLocked(pre, res[t].paths[n])
              /\ pre.items[res[t].paths[m]].coll # pre.items[res[t].paths[n]].coll
              /\ "app" \in DOMAIN pre.items[res[t].paths[n]].attrs
        /\ \E i \in LiveItems(pre) : i \notin Carrying(pre, call[t].attrs)

\* A successful create_item with service and username and no target,
\* followed by find_matching_items with the same attributes.
FindAfterCreate(t) ==
    /\ ReturningOk(t, "find_matching_items")
    /\ prevCreate # NoCreate
    /\ pre.items[prevCreate.item].attrs = call[t].attrs
    /\ DOMAIN call[t].attrs = {"service", "username"}

\* C8 as stated: the search after the create returns exactly one item, with
\* the given service and username and no target.
C8_ExactlyOneFound ==
    \A t \in Threads :
        FindAfterCreate(t) =>
            /\ Len(res[t].paths) = 1
            /\ LET at == daemon.items[res[t].paths[1]].attrs
               IN /\ "target" \notin DOMAIN at
                  /\ at["service"] = call[t].attrs["service"]
                  /\ at["username"] = call[t].attrs["username"]

\* C8 amended: the search after the create returns the created item, whose
\* stored attributes are the given service and username and no target,
\* together with every other item of any collection that carries the same
\* service and username; it returns one item exactly when there is no other.
C8_CreatedItemFound ==
    \A t \in Threads :
        FindAfterCreate(t) =>
            LET got == {res[t].paths[n] : n \in 1..Len(res[t].paths)}
                others == Carrying(pre, call[t].attrs) \ {prevCreate.item}
            IN /\ prevCreate.item \in got
               /\ daemon.items[prevCreate.item].attrs = call[t].attrs
               /\ "target" \notin DOMAIN daemon.items[prevCreate.item].attrs
               /\ got = {prevCreate.item} \cup others
               /\ Len(res[t].paths) = 1 <=> others = {}

C8_Witness ==
    \E t \in Threads :
        /\ FindAfterCreate(t)
        /\ Len(res[t].paths) > 1
        /\ \E i \in LiveItems(daemon) :
              i \notin Carrying(daemon, call[t].attrs)

\* C9: the name "default" resolves to the daemon's designated default
\* collection: create_item("default", ...) issues its request on it and
\* the item it writes is in it, whatever the labels of the collections.
C9_DefaultNamesDefaultCollection ==
    /\ \A r \in get_collection(daemon, "default") :
          r.err = "" => r.coll = daemon.dflt /\ r.coll \in LiveColls(daemon)
    /\ \A t \in Threads :
          call[t].op = "create_item" /\ call[t].name = "default" =>
             /\ pc[t] = "create_item" => local[t].coll = pre.dflt
             /\ pc[t] = "done" /\ res[t].kind = "Ok" =>
                   /\ pre.dflt # 0
                   /\ daemon.items[local[t].item].coll = pre.dflt
                   /\ LiveColls(daemon) = LiveColls(pre)

C9_Witness ==
    \E t \in Threads :
        /\ ReturningOk(t, "create_item")
        /\ call[t].name = "default"
        /\ pre.colls[pre.dflt].label # "default"
        /\ \E c \in Labelled(pre, "default") : c < pre.dflt
        /\ nops = 2
        /\ prevCreate # NoCreate
        /\ prevCreate.coll # pre.dflt

\* A create_item call whose daemon requests all went through.
CreateNoFailure(t) == Returning(t, "create_item") /\ ~local[t].dfail

\* The item is in collection c, and the new collections are exactly `made`.
CreatedIn(t, c, made) ==
    /\ res[t].kind = "Ok"
    /\ LiveColls(daemon) = LiveColls(pre) \cup made
    /\ LiveColls(pre) \cap made = {}
    /\ local[t].coll = c
    /\ daemon.items[local[t].item].coll = c

\* C10 as stated: for every name other than "default" that labels no
\* collection, create_item creates one collection with that label and
\* creates the item in it.
C10_CreatesMissingCollection ==
    \A t \in Threads :
        /\ CreateNoFailure(t)
        /\ call[t].name # "default"
        /\ Labelled(pre, call[t].name) = {}
        => /\ CreatedIn(t, Len(pre.colls) + 1, {Len(pre.colls) + 1})
           /\ daemon.colls[Len(pre.colls) + 1].label = call[t].name

\* C10 amended: the same for every name that is not "default" in any
\* letter case; such a call never returns the not-found error, and when a
\* collection with that label exists none is created and the item goes
\* into the first one with that label.
C10_CreatesMissingUnlessDefault ==
    \A t \in Threads :
        Returning(t, "create_item")
        /\ to_ascii_lowercase(call[t].name) # "default"
        => /\ res[t].kind # "NoEntry"
           /\ CreateNoFailure(t) /\ Labelled(pre, call[t].name) = {} =>
                 /\ CreatedIn(t, Len(pre.colls) + 1, {Len(pre.colls) + 1})
                 /\ daemon.colls[Len(pre.colls) + 1].label = call[t].name
                 /\ Cardinality(Labelled(daemon, call[t].name)) = 1
           /\ CreateNoFailure(t) /\ Labelled(pre, call[t].name) # {} =>
                 LET c == CHOOSE x \in Labelled(pre, call[t].name) :
                             \A y \in Labelled(pre, call[t].name) : x <= y
                 IN CreatedIn(t, c, {})

C10_Witness ==
    \E t \in Threads :
        /\ CreateNoFailure(t)
        /\ res[t].kind = "Ok"
        /\ call[t].name = "work"
        /\ Labelled(pre, "work") = {}
        /\ Labelled(daemon, "work") = {Len(pre.colls) + 1}
        /\ daemon.items[local[t].item].coll = Len(pre.colls) + 1

\* C11: once a thread has panicked while holding the connection lock, every
\* later call ends in lock() with the fatal "Mutex failure" and returns no
\* value; it runs no statement of the method, so that no request is made to
\* the daemon and the store is as it was.
C11_PoisonedLockIsFatal ==
    \A t \in Threads :
        poisoned /\ InMethod(t) =>
            /\ pc[t] = "panicked"
            /\ res[t].kind = "MutexFailure"
            /\ local[t] = NoLocal
            /\ daemon = pre

C11_Witness ==
    \E t \in Threads :
        /\ poisoned
        /\ pc[t] = "panicked"
        /\ res[t].kind = "MutexFailure"
        /\ call[t].op = "create_item"
        /\ nops = 2

\* C12: a call during which a request to the daemon failed returns an error;
\* in particular create_item does not go on to create a collection when the
\* label of a collection could not be read during the resolution.
C12_FailuresSurfaced ==
    \A t \in Threads :
        /\ pc[t] = "done" /\ local[t].dfail => res[t].kind \notin {"", "Ok"}
        /\ pc[t] = "create_collection" => ~local[t].dfail

\* A successful update_attributes on the item the last returned call updated,
\* with keys that call did not give.
SecondUpdate(t) ==
    /\ ReturningOk(t, "update_attributes")
    /\ prevUpdate # NoUpdate
    /\ prevUpdate.path = call[t].path
    /\ DOMAIN prevUpdate.attrs \cap DOMAIN call[t].attrs = {}

\* C13: when two update_attributes calls on the same item with disjoint key
\* sets are made by the threads of one store, concurrently or not, the item's
\* attribute map carries the pairs of both once the second has written.
C13_BothUpdatesKept ==
    \A t \in Threads :
        SecondUpdate(t) =>
            LET now == daemon.items[call[t].path].attrs
                both == prevUpdate.attrs @@ call[t].attrs
            IN \A k \in DOMAIN both : k \in DOMAIN now /\ now[k] = both[k]

C13_Witness ==
    \E t \in Threads :
        /\ SecondUpdate(t)
        /\ t \in prevUpdate.waiting
        /\ "app" \in DOMAIN daemon.items[call[t].path].attrs
        /\ "target" \in DOMAIN daemon.items[call[t].path].attrs

\* C14: when every request to the daemon returns and scheduling is fair, a
\* thread that waits in lock() gets the mutex, a thread that holds the mutex
\* reaches the end of its method with Ok or an error, and it then returns
\* with the mutex released: a thread outside a method never holds the mutex.
C14_CallsCompleteAndRelease ==
    /\ [](\A t \in Threads : ~InMethod(t) => mutex # t)
    /\ \A t \in Threads : (pc[t] = "lock") ~> (mutex = t)
    /\ \A t \in Threads : (mutex = t) ~> (pc[t] = "done" /\ res[t].kind # "")
    /\ \A t \in Threads : (pc[t] = "done") ~> (pc[t] = "idle" /\ mutex # t)

\* A thread waits in lock() while the other is about to return early, from
\* the rejection in delete_collection or from a resolution that failed.
C14_Witness ==
    \E s, t \in Threads :
        /\ pc[t] = "lock"
        /\ mutex = s
        /\ pc[s] = "done"
        /\ \/ Returning(s, "delete_collection")
              /\ res[s].kind = "NotSupportedByStore"
           \/ Returning(s, "create_item") /\ local[s].coll = 0
              /\ res[s].kind = "PlatformFailure"

ItemOps ==
    {"get_secret", "set_secret", "get_attributes", "update_attributes",
     "get_label", "set_label", "ensure_unlocked", "delete"}

\* Thread t runs an item-level method on the path of an item that is gone.
Stale(t) ==
    /\ InMethod(t)
    /\ call[t].op \in ItemOps
    /\ call[t].path \notin LiveItems(pre)

\* C15: an item-level method called on the path of a deleted item (with the
\* lock not poisoned) makes no change to the daemon's store, writes nothing,
\* and ends by returning an error: not-found when the daemon answers the
\* request, a platform failure when the request does not go through.
C15_StaleReferenceNotFound ==
    \A t \in Threads :
        Stale(t) /\ ~poisoned =>
            /\ daemon = pre
            /\ pc[t] \in {"request", "get_attributes", "done"}
            /\ pc[t] = "done" =>
                  res[t].kind = IF local[t].dfail THEN "PlatformFailure"
                                ELSE "NoEntry"

\* update_attributes returns not-found on an item that delete removed.
C15_Witness ==
    \E t \in Threads :
        /\ Stale(t)
        /\ Returning(t, "update_attributes")
        /\ res[t].kind = "NoEntry"
        /\ Len(pre.items) = 3
        /\ LiveColls(pre) = 1..Len(pre.colls)
        /\ Cardinality(LiveItems(pre)) = 2

\* C16: delete_collection(name) with a name other than "default" that does
\* not end in a platform failure: when no collection is labelled name it
\* returns not-found and the collections and items are those of before; when
\* one is, it returns Ok, the first collection with that label is gone and no
\* other collection is.
C16_DeleteCollectionByLabel ==
    \A t \in Threads :
        /\ Returning(t, "delete_collection")
        /\ call[t].name # "default"
        /\ res[t].kind # "PlatformFailure"
        => LET have == Labelled(pre, call[t].name)
           IN IF have = {}
              THEN /\ res[t].kind = "NoEntry"
                   /\ Len(daemon.colls) = Len(pre.colls)
                   /\ LiveColls(daemon) = LiveColls(pre)
                   /\ LiveItems(daemon) = LiveItems(pre)
              ELSE /\ res[t].kind = "Ok"
                   /\ LiveColls(daemon) =
                        LiveColls(pre) \ {CHOOSE c \in have : \A x \in have : c <= x}

\* C17: whenever create_item issues the request that creates the item, the
\* collection it issues it on is unlocked.
C17_CollectionUnlockedAtCreate ==
    \A t \in Threads :
        pc[t] = "create_item" =>
            /\ local[t].coll \in LiveColls(daemon)
            /\ ~daemon.colls[local[t].coll].locked

\* The spellings of "default" among the names callers pass.
DefaultVariants == {"default", "Default", "DEFAULT"} \cap Names

\* create_item returns, called with a name that is "default" in some case.
CreateCaseVariant(t) ==
    /\ Returning(t, "create_item")
    /\ call[t].name \in DefaultVariants

\* C18 as stated: create_item with a case variant of "default" leaves the
\* number of collections unchanged and places the item in the default
\* collection.
C18_CaseVariantsUseDefault ==
    \A t \in Threads :
        CreateCaseVariant(t) =>
            /\ Cardinality(LiveColls(daemon)) = Cardinality(LiveColls(pre))
            /\ res[t].kind = "Ok" =>
                  daemon.items[local[t].item].coll = pre.dflt

\* C18 amended: create_item with a case variant of "default" creates and
\* removes no collection.  With "default" itself the item is placed in the
\* default collection; with another variant it is placed in a collection
\* labelled exactly that name if there is one (the first, when every label
\* is read), and in the default collection otherwise.
C18_CaseVariantsCreateNothing ==
    \A t \in Threads :
        CreateCaseVariant(t) =>
            /\ Len(daemon.colls) = Len(pre.colls)
            /\ LiveColls(daemon) = LiveColls(pre)
            /\ res[t].kind = "Ok" =>
                  LET c == daemon.items[local[t].item].coll
                      lit == Labelled(pre, call[t].name)
                  IN /\ c = local[t].coll
                     /\ c = pre.dflt \/ (call[t].name # "default" /\ c \in lit)
                     /\ call[t].name = "default" => c = pre.dflt
                     /\ ~local[t].dfail =>
                           c = IF call[t].name # "default" /\ lit # {}
                               THEN CHOOSE x \in lit : \A y \in lit : x <= y
                               ELSE pre.dflt

\* "Default" names a collection labelled "Default" that is not the default
\* collection, and the item is placed there.
C18_Witness ==
    \E t \in Threads :
        /\ CreateCaseVariant(t)
        /\ res[t].kind = "Ok"
        /\ ~local[t].dfail
        /\ call[t].name = "Default"
        /\ daemon.items[local[t].item].coll \in Labelled(pre, "Default")
        /\ daemon.items[local[t].item].coll # pre.dflt

\* The item at path p is in d what it is in e, except for field f.
SameBut(d, e, p, f) ==
    /\ Len(d.items) = Len(e.items)
    /\ d.colls = e.colls
    /\ d.dflt = e.dflt
    /\ \A i \in 1..Len(d.items) :
          /\ i # p => d.items[i] = e.items[i]
          /\ i = p => \A g \in DOMAIN d.items[i] \ {f} :
                         d.items[i][g] = e.items[i][g]

\* C19: whatever it returns, set_label leaves everything but the label of
\* its item as it was, update_attributes everything but the attribute map
\* of its item, set_secret everything but the secret of its item; get_secret,
\* get_attributes and get_label leave the store as it was.  No other item
\* and no collection is created, deleted or altered.  On Ok the label or the
\* secret is the one given; on an error nothing has changed.
C19_ItemFieldsIndependent ==
    \A t \in Threads :
        pc[t] = "done" =>
            /\ call[t].op = "set_label" =>
                  SameBut(daemon, pre, call[t].path, "label")
            /\ call[t].op = "update_attributes" =>
                  SameBut(daemon, pre, call[t].path, "attrs")
            /\ call[t].op = "set_secret" =>
                  SameBut(daemon, pre, call[t].path, "secret")
            /\ call[t].op \in {"get_secret", "get_attributes", "get_label"} =>
                  daemon = pre
            /\ ReturningOk(t, "set_label") =>
                  daemon.items[call[t].path].label = call[t].label
            /\ ReturningOk(t, "set_secret") =>
                  daemon.items[call[t].path].secret = call[t].secret
            /\ call[t].op \in {"set_label", "update_attributes", "set_secret"}
               /\ res[t].kind # "Ok" => daemon = pre

\* set_label has changed the label of an item that carries attributes set by
\* another application, next to other items.
C19_Witness ==
    \E t \in Threads :
        /\ ReturningOk(t, "set_label")
        /\ daemon.items[call[t].path].label # pre.items[call[t].path].label
        /\ "app" \in DOMAIN daemon.items[call[t].path].attrs
        /\ Cardinality(LiveItems(daemon)) = 3
        /\ Cardinality(LiveColls(daemon)) = 2

====
